---- MODULE Spec2Model ----
(***************************************************************************)
(* Model of rtfd_guns_for_hands: the marker-scanning block parser          *)
(* (guns_parser.py, class RtfdGunsForHands) and the extraction loop of     *)
(* the command line tool (cli.py, main).                                   *)
(*                                                                         *)
(* Bytes are the integers 0..255, a bytes object is a sequence of them,    *)
(* and a str is the sequence of its code points.  Python offsets are       *)
(* 0-based, TLA+ sequences 1-based: data[a:b] is SubSeq(data, a+1, b).     *)
(***************************************************************************)
EXTENDS Integers, Sequences, FiniteSets, TLC

VARIABLES
    data,      \* self.data: the bytes the instance was built from
    length,    \* self.length
    offset,    \* self.offset
    pc,        \* "idle": no method running; "scan": inside the while loop;
               \* "exit": cli.main has ended
    blocks,    \* the local list `blocks` of parse_all_file_blocks
    spans,     \* history: <<pos, new_off>> of every block appended to blocks
    ret,       \* the value the last finished method call returned
    calls,     \* number of method calls made on the current instance
    inst,      \* number of instances built so far from the same bytes
    firsts,    \* per instance: the list its first call, parse_all_file_blocks, returned
    results,   \* cli.main: the list `results`
    disk       \* cli.main: the files written, as <<safe_name, bytes>> pairs

vars == <<data, length, offset, pc, blocks, spans, ret, calls, inst, firsts, results, disk>>

-----------------------------------------------------------------------------
(* Bounds of the model.                                                    *)

MaxBlocks == 2      \* blocks in one generated buffer
MaxBody == 2        \* bytes of a generated file body
MaxPad == 1         \* bytes of generated padding
MaxCalls == 2       \* method calls made on one instance
MaxInstances == 2   \* instances built from the same bytes

-----------------------------------------------------------------------------
(* Python primitives.                                                      *)

Min(a, b) == IF a < b THEN a ELSE b

\* d[a:b] for 0 <= a: the slice is clamped to the end of d, never an error.
Slice(d, a, b) == SubSeq(d, a + 1, Min(b, Len(d)))

\* d.startswith(p)
StartsWith(d, p) == Len(d) >= Len(p) /\ SubSeq(d, 1, Len(p)) = p

\* d.find(sub, start) for a non-empty sub: the lowest index >= start at which
\* sub lies wholly inside d, or -1.
Find(d, sub, start) ==
    LET hits == {p \in start..(Len(d) - Len(sub)) :
                     d[p + 1] = sub[1] /\ SubSeq(d, p + 1, p + Len(sub)) = sub}
    IN  IF hits = {} THEN -1 ELSE CHOOSE p \in hits : \A q \in hits : p <= q

\* struct.unpack_from("<I", d, off)[0], read only where off + 4 <= len(d).
\* The value is kept as its low 16 bits (val) and a flag for a non-zero high
\* half (big): every buffer of the model is shorter than 65536 bytes, so a
\* value with big set exceeds every length and one without is val exactly.
unpack_from(d, off) ==
    [val |-> d[off + 1] + 256 * d[off + 2], big |-> d[off + 3] # 0 \/ d[off + 4] # 0]

\* off + n > limit, for a 32-bit n as unpack_from gives it.
Exceeds(off, n, limit) == n.big \/ off + n.val > limit

RTFD == <<114, 116, 102, 100>>                  \* b"rtfd"
ONE == <<1, 0, 0, 0>>                           \* b"\x01\x00\x00\x00"
SENTINEL == <<0, 0, 0, 128>>                    \* b"\x00\x00\x00\x80"

COMBINED_MARKER ==
    <<19, 0, 0, 0,
      95, 95, 64, 80, 114, 101, 102, 101, 114, 114, 101, 100, 78, 97, 109, 101, 64, 95, 95,
      23, 0, 0, 0,
      95, 95, 64, 85, 84, 70, 56, 80, 114, 101, 102, 101, 114, 114, 101, 100, 78, 97, 109,
      101, 64, 95, 95>>

REPLACEMENT == 65533                            \* U+FFFD

IsCont(b) == b >= 128 /\ b <= 191

\* raw.decode("utf-8", errors="replace"): an ill-formed sequence becomes one
\* U+FFFD per maximal prefix of a well-formed one; it never raises, so the
\* except branch of _parse_repeated_string is dead.
RECURSIVE Utf8Decode(_)
Utf8Decode(raw) ==
    IF raw = <<>> THEN <<>>
    ELSE
        LET n == Len(raw)
            b0 == raw[1]
            lo2 == CASE b0 = 224 -> 160 [] b0 = 240 -> 144 [] OTHER -> 128
            hi2 == CASE b0 = 237 -> 159 [] b0 = 244 -> 143 [] OTHER -> 191
            need == CASE b0 < 128 -> 1
                      [] b0 >= 194 /\ b0 <= 223 -> 2
                      [] b0 >= 224 /\ b0 <= 239 -> 3
                      [] b0 >= 240 /\ b0 <= 244 -> 4
                      [] OTHER -> 0
            ok2 == n >= 2 /\ raw[2] >= lo2 /\ raw[2] <= hi2
            ok3 == ok2 /\ n >= 3 /\ IsCont(raw[3])
            ok4 == ok3 /\ n >= 4 /\ IsCont(raw[4])
            rest(k) == Utf8Decode(SubSeq(raw, k + 1, n))
        IN  CASE need = 1 -> <<b0>> \o rest(1)
              [] need = 0 -> <<REPLACEMENT>> \o rest(1)
              [] need = 2 ->
                    IF ok2 THEN <<(b0 - 192) * 64 + (raw[2] - 128)>> \o rest(2)
                    ELSE <<REPLACEMENT>> \o rest(1)
              [] need = 3 ->
                    IF ok3
                    THEN <<(b0 - 224) * 4096 + (raw[2] - 128) * 64 + (raw[3] - 128)>> \o rest(3)
                    ELSE <<REPLACEMENT>> \o rest(IF ok2 THEN 2 ELSE 1)
              [] need = 4 ->
                    IF ok4
                    THEN <<(b0 - 240) * 262144 + (raw[2] - 128) * 4096
                           + (raw[3] - 128) * 64 + (raw[4] - 128)>> \o rest(4)
                    ELSE <<REPLACEMENT>> \o rest(IF ok3 THEN 3 ELSE IF ok2 THEN 2 ELSE 1)

-----------------------------------------------------------------------------
(* guns_parser.py: the block decoder.  An optional value is a sequence:    *)
(* <<>> is None and <<x>> is x.  Every result also carries read_end, one   *)
(* past the highest index of the buffer the call asked for.                *)

None == <<>>

\* Mutant of parse_repeated_string: the bounds check before the name bytes
\* is missing.
parse_repeated_string_unchecked(d, n, off) ==
    IF off + 4 > n THEN [name |-> None, off |-> off, read_end |-> off]
    ELSE IF Slice(d, off, off + 4) # ONE
    THEN [name |-> None, off |-> off, read_end |-> off + 4]
    ELSE IF off + 8 > n THEN [name |-> None, off |-> off + 4, read_end |-> off + 4]
    ELSE
        LET name_len == unpack_from(d, off + 4)
            raw == Slice(d, off + 8, off + 8 + name_len.val)
        IN  [name |-> <<Utf8Decode(raw)>>,
             off |-> off + 8 + name_len.val,
             read_end |-> off + 8 + name_len.val]

\* _parse_repeated_string(offset) on the buffer d of length n:
\* (name_str, offset) or (None, offset).
parse_repeated_string(d, n, off) ==
    IF off + 4 > n THEN [name |-> None, off |-> off, read_end |-> off]
    ELSE IF Slice(d, off, off + 4) # ONE
    THEN [name |-> None, off |-> off, read_end |-> off + 4]
    ELSE IF off + 8 > n THEN [name |-> None, off |-> off + 4, read_end |-> off + 4]
    ELSE
        LET name_len == unpack_from(d, off + 4) IN
        IF Exceeds(off + 8, name_len, n)
        THEN [name |-> None, off |-> off + 8, read_end |-> off + 8]
        ELSE
            LET raw == Slice(d, off + 8, off + 8 + name_len.val) IN
            [name |-> <<Utf8Decode(raw)>>,
             off |-> off + 8 + name_len.val,
             read_end |-> off + 8 + name_len.val]

\* Mutant of read_lengths: the two fields after the sentinel are taken in the
\* other order, (pad_len, file_len).
read_lengths_swapped(d, n, off) ==
    LET maybe_padding == Slice(d, off, off + 4) IN
    IF maybe_padding = SENTINEL
    THEN IF off + 12 > n
         THEN [ok |-> FALSE, file_len |-> 0, pad_len |-> 0, big |-> FALSE,
               off |-> off + 4, read_end |-> off + 4]
         ELSE LET pl == unpack_from(d, off + 4)
                  fl == unpack_from(d, off + 8)
              IN  [ok |-> TRUE, file_len |-> fl.val, pad_len |-> pl.val,
                   big |-> fl.big \/ pl.big, off |-> off + 12, read_end |-> off + 12]
    ELSE LET fl == unpack_from(maybe_padding, 0)
         IN  [ok |-> TRUE, file_len |-> fl.val, pad_len |-> 0, big |-> fl.big,
              off |-> off + 4, read_end |-> off + 4]

\* The length field of parse_file_block, read at off: the sentinel
\* 00 00 00 80 is followed by (file_len, pad_len), anything else is file_len.
read_lengths(d, n, off) ==
    LET maybe_padding == Slice(d, off, off + 4) IN
    IF maybe_padding = SENTINEL
    THEN IF off + 12 > n
         THEN [ok |-> FALSE, file_len |-> 0, pad_len |-> 0, big |-> FALSE,
               off |-> off + 4, read_end |-> off + 4]
         ELSE LET fl == unpack_from(d, off + 4)
                  pl == unpack_from(d, off + 8)
              IN  [ok |-> TRUE, file_len |-> fl.val, pad_len |-> pl.val,
                   big |-> fl.big \/ pl.big, off |-> off + 12, read_end |-> off + 12]
    ELSE LET fl == unpack_from(maybe_padding, 0)
         IN  [ok |-> TRUE, file_len |-> fl.val, pad_len |-> 0, big |-> fl.big,
              off |-> off + 4, read_end |-> off + 4]

\* Mutant of read_body: a failure inside a repeated name returns the offset
\* _parse_repeated_string stopped at instead of start_offset.
read_body_leaky(d, n, start_offset, lens) ==
    LET fail(e) == [block |-> None, off |-> start_offset, read_end |-> e]
        o5 == lens.off + lens.pad_len
        o6 == o5 + lens.file_len
    IN  IF lens.big \/ o5 > n THEN fail(lens.off)
        ELSE IF o6 > n THEN fail(o5)
        ELSE
            LET file_data == Slice(d, o5, o6)
                rn == parse_repeated_string(d, n, o6)
            IN  IF rn.name = None
                THEN [block |-> None, off |-> rn.off, read_end |-> rn.read_end]
                ELSE
                    LET ru == parse_repeated_string(d, n, rn.off) IN
                    IF ru.name = None
                    THEN [block |-> None, off |-> ru.off, read_end |-> ru.read_end]
                    ELSE [block |-> <<[file_len |-> lens.file_len,
                                       pad_len |-> lens.pad_len,
                                       file_data |-> file_data,
                                       repeated_name |-> rn.name[1],
                                       repeated_utf8 |-> ru.name[1]]>>,
                          off |-> ru.off,
                          read_end |-> ru.off]

\* The tail of parse_file_block from the padding on: skip pad_len, read
\* file_len bytes, then the two repeated names.
read_body(d, n, start_offset, lens) ==
    LET fail(e) == [block |-> None, off |-> start_offset, read_end |-> e]
        o5 == lens.off + lens.pad_len
        o6 == o5 + lens.file_len
    IN  IF lens.big \/ o5 > n THEN fail(lens.off)
        ELSE IF o6 > n THEN fail(o5)
        ELSE
            LET file_data == Slice(d, o5, o6)
                rn == parse_repeated_string(d, n, o6)
            IN  IF rn.name = None THEN fail(rn.read_end)
                ELSE
                    LET ru == parse_repeated_string(d, n, rn.off) IN
                    IF ru.name = None THEN fail(ru.read_end)
                    ELSE [block |-> <<[file_len |-> lens.file_len,
                                       pad_len |-> lens.pad_len,
                                       file_data |-> file_data,
                                       repeated_name |-> rn.name[1],
                                       repeated_utf8 |-> ru.name[1]]>>,
                          off |-> ru.off,
                          read_end |-> ru.off]

\* parse_file_block(start_offset) on the buffer d of length n:
\* (block_dict, new_offset) or (None, start_offset).
ParseFileBlock(d, n, start_offset) ==
    LET marker_len == Len(COMBINED_MARKER)
        fail(e) == [block |-> None, off |-> start_offset, read_end |-> e]
        o1 == start_offset + marker_len
        o2 == o1 + 21
        o3 == o2 + 4
    IN  IF o1 > n THEN fail(start_offset)
        ELSE IF Slice(d, start_offset, o1) # COMBINED_MARKER THEN fail(o1)
        ELSE IF o2 > n THEN fail(o1)
        ELSE IF o3 > n THEN fail(o1)
        ELSE IF Slice(d, o2, o3) # ONE THEN fail(o3)
        ELSE IF o3 + 4 > n THEN fail(o3)
        ELSE
            LET lens == read_lengths(d, n, o3) IN
            IF ~lens.ok THEN fail(lens.read_end)
            ELSE read_body(d, n, start_offset, lens)

\* self.parse_file_block(start_offset)
parse_file_block(start_offset) == ParseFileBlock(data, length, start_offset)

\* Mutant of skip_rtfd_magic: the whole 12-byte header is skipped.
skip_rtfd_magic_header == IF StartsWith(data, RTFD) THEN offset + 12 ELSE offset

\* self.skip_rtfd_magic(): the offset it leaves.
skip_rtfd_magic == IF StartsWith(data, RTFD) THEN offset + 4 ELSE offset

\* The test that makes parse_all_file_blocks return the empty list at once.
no_magic == offset = 0 /\ ~StartsWith(data, RTFD)

\* Mutant of loop_iteration: a failing block empties the list (all or nothing).
loop_iteration_abort(off, blks) ==
    LET pos == Find(data, COMBINED_MARKER, off) IN
    IF pos = -1 THEN [brk |-> TRUE, blocks |-> blks, offset |-> off, pos |-> pos]
    ELSE
        LET r == parse_file_block(pos) IN
        IF r.block = None
        THEN [brk |-> TRUE, blocks |-> <<>>, offset |-> off, pos |-> pos]
        ELSE [brk |-> FALSE, blocks |-> Append(blks, r.block[1]), offset |-> r.off,
              pos |-> pos]

\* Mutant of loop_iteration: the scan resumes right after the marker, not
\* after the block.
loop_iteration_rescan(off, blks) ==
    LET pos == Find(data, COMBINED_MARKER, off) IN
    IF pos = -1 THEN [brk |-> TRUE, blocks |-> blks, offset |-> off, pos |-> pos]
    ELSE
        LET r == parse_file_block(pos) IN
        IF r.block = None
        THEN [brk |-> TRUE, blocks |-> blks, offset |-> off, pos |-> pos]
        ELSE [brk |-> FALSE, blocks |-> Append(blks, r.block[1]),
              offset |-> pos + Len(COMBINED_MARKER), pos |-> pos]

\* Mutant of loop_iteration: self.offset is not moved after a block.
loop_iteration_stuck(off, blks) ==
    LET pos == Find(data, COMBINED_MARKER, off) IN
    IF pos = -1 THEN [brk |-> TRUE, blocks |-> blks, offset |-> off, pos |-> pos]
    ELSE
        LET r == parse_file_block(pos) IN
        IF r.block = None
        THEN [brk |-> TRUE, blocks |-> blks, offset |-> off, pos |-> pos]
        ELSE [brk |-> FALSE, blocks |-> Append(blks, r.block[1]), offset |-> off,
              pos |-> pos]

\* One pass of the while loop of parse_all_file_blocks from self.offset = off
\* with the local list blks: find the next marker, decode the block there,
\* and either break (brk) or append the block and move the offset.
loop_iteration(off, blks) ==
    LET pos == Find(data, COMBINED_MARKER, off) IN
    IF pos = -1 THEN [brk |-> TRUE, blocks |-> blks, offset |-> off, pos |-> pos]
    ELSE
        LET r == parse_file_block(pos) IN
        IF r.block = None
        THEN [brk |-> TRUE, blocks |-> blks, offset |-> off, pos |-> pos]
        ELSE [brk |-> FALSE, blocks |-> Append(blks, r.block[1]), offset |-> r.off,
              pos |-> pos]

-----------------------------------------------------------------------------
(* cli.py: the extraction loop of main.                                    *)

RECURSIVE Digits(_)
\* str(i) for i >= 0
Digits(i) == IF i < 10 THEN <<48 + i>> ELSE Digits(i \div 10) \o <<48 + (i % 10)>>

\* f"file_{i}.bin"
FallbackName(i) == <<102, 105, 108, 101, 95>> \o Digits(i) \o <<46, 98, 105, 110>>

\* Mutant of fname: the two names are tried in the other order.
fname_ascii_first(block, i) ==
    IF block.repeated_name # <<>> THEN block.repeated_name
    ELSE IF block.repeated_utf8 # <<>> THEN block.repeated_utf8
    ELSE FallbackName(i)

\* block["repeated_utf8"] or block["repeated_name"] or f"file_{i}.bin":
\* an empty str is falsy.
fname(block, i) ==
    IF block.repeated_utf8 # <<>> THEN block.repeated_utf8
    ELSE IF block.repeated_name # <<>> THEN block.repeated_name
    ELSE FallbackName(i)

\* fname.replace("/", "_").replace("\\", "_")
safe_name(name) == [k \in 1..Len(name) |-> IF name[k] = 47 \/ name[k] = 92 THEN 95 ELSE name[k]]

\* The JSON entry of block i (1-based); the hashes and the MIME type come from
\* hashlib and libmagic and are left out.
info(block, i) ==
    [filename |-> fname(block, i),
     extracted_path |-> safe_name(fname(block, i)),
     size |-> Len(block.file_data),
     padding |-> block.pad_len > 0]

\* The files on disk after writing every block of blks in order over d: a
\* later block with the same path overwrites an earlier one.
written(d, blks) ==
    LET path(i) == safe_name(fname(blks[i], i))
        last(i) == \A j \in (i + 1)..Len(blks) : path(j) # path(i)
        new == {<<path(i), blks[i].file_data>> : i \in {k \in 1..Len(blks) : last(k)}}
    IN  {f \in d : \A g \in new : g[1] # f[1]} \cup new

-----------------------------------------------------------------------------
(* The buffers the instances are built from: the block layout of the class *)
(* docstring, encoded, damaged and truncated.                              *)

LE32(n) == <<n % 256, (n \div 256) % 256, 0, 0>>

Fill(n, b) == [k \in 1..n |-> b]

Pattern(n, base) == [k \in 1..n |-> base + k]

RECURSIVE Cat(_)
Cat(ss) == IF ss = <<>> THEN <<>> ELSE Head(ss) \o Cat(Tail(ss))

RepStr(mark, raw) == mark \o LE32(Len(raw)) \o raw

Enc(typ, lenfield, pad, body, names) ==
    COMBINED_MARKER \o Fill(21, 170) \o typ \o lenfield \o pad \o body
    \o RepStr(names[1], names[2]) \o RepStr(names[3], names[4])

PlainNames == <<ONE, <<97>>, ONE, <<>>>>

Direct(body, names) == Enc(ONE, LE32(Len(body)), <<>>, body, names)

Padded(pad, body, names) ==
    Enc(ONE, SENTINEL \o LE32(Len(body)) \o LE32(Len(pad)), pad, body, names)

Basic == Direct(<<66>>, PlainNames)

NameVariants ==
    { <<ONE, <<>>, ONE, <<>>>>,                       \* both names empty
      <<ONE, <<97>>, ONE, <<195, 169>>>>,             \* "a", "e-acute"
      <<ONE, <<>>, ONE, <<98, 47, 99>>>>,             \* "", "b/c"
      <<ONE, <<226, 130>>, ONE, <<>>>>,               \* ill-formed UTF-8, ""
      <<ONE, COMBINED_MARKER, ONE, <<>>>> }           \* the marker as a name

GoodBlocks ==
    {Direct(Pattern(k, 64), PlainNames) : k \in 0..MaxBody}
    \cup {Padded(Pattern(MaxPad, 224), Pattern(k, 64), PlainNames) : k \in 0..MaxBody}
    \cup {Padded(Pattern(p, 224), Pattern(MaxBody, 64), PlainNames) : p \in 0..MaxPad}
    \cup {Direct(<<66>>, nm) : nm \in NameVariants}
    \cup { Direct(Basic, PlainNames),                          \* a block as file body
           Padded(COMBINED_MARKER, <<66>>, PlainNames),        \* the marker as padding
           <<0, 0>> \o Basic }                                 \* junk before the marker

BadBlocks ==
    { Enc(<<3, 0, 0, 0>>, LE32(1), <<>>, <<66>>, PlainNames),            \* record type 3
      Enc(ONE, <<255, 255, 255, 255>>, <<>>, <<66>>, PlainNames),        \* huge length
      Enc(ONE, SENTINEL \o LE32(1) \o <<0, 0, 1, 0>>, <<>>, <<66>>, PlainNames),
      Enc(ONE, LE32(1), <<>>, <<66>>, <<<<2, 0, 0, 0>>, <<97>>, ONE, <<>>>>),
      Enc(ONE, LE32(1), <<>>, <<66>>, <<ONE, <<97>>, ONE \o <<9, 0, 0, 0>>, <<>>>>),
      SubSeq(Basic, 1, 60),                                              \* cut short
      SubSeq(Basic, 1, Len(Basic) - 1) }

\* MaxBlocks blocks, all Basic but the one at position p.
RunWith(v, p) == Cat([k \in 1..MaxBlocks |-> IF k = p THEN v ELSE Basic])

Runs == {RunWith(v, p) : v \in GoodBlocks \cup BadBlocks, p \in 1..MaxBlocks}

Heads ==
    { <<>>, <<114, 116, 102>>, RTFD,
      RTFD \o LE32(0) \o LE32(3),
      RTFD \o LE32(1) \o LE32(3),
      RTFD \o LE32(0) \o LE32(1),
      <<114, 116, 102, 120>> \o LE32(0) \o LE32(3) }

Whole == RTFD \o Padded(<<225>>, <<65, 66>>, <<ONE, <<97>>, ONE, <<98>>>>)

\* A block whose file body is itself a block, then a block of record type 3,
\* then a well-formed block.
Nested ==
    RTFD \o Direct(Basic, PlainNames)
    \o Enc(<<3, 0, 0, 0>>, LE32(1), <<>>, <<66>>, PlainNames) \o Basic

Inputs ==
    {RTFD \o r : r \in Runs}
    \cup {Nested}
    \cup {h \o t : h \in Heads, t \in {<<>>, Basic}}
    \cup {SubSeq(Whole, 1, k) : k \in 0..Len(Whole)}

-----------------------------------------------------------------------------
(* The state machine: a caller that builds instances from one buffer and   *)
(* calls their methods, and the command line tool on top of it.            *)

Returned(kind, list, block, off, arg, read_end) ==
    [kind |-> kind, list |-> list, block |-> block, off |-> off, arg |-> arg,
     read_end |-> read_end]

Nothing == Returned("none", <<>>, None, 0, 0, 0)

\* Mutant of Constructed: the offset is shared by the instances, not reset.
Constructed_shared(d) == [data |-> d, offset |-> offset, length |-> Len(d)]

\* __init__(data): the fields of a new instance (Init is the first one).
Constructed(d) == [data |-> d, offset |-> 0, length |-> Len(d)]

Init ==
    /\ data \in Inputs
    /\ offset = 0
    /\ length = Len(data)
    /\ pc = "idle"
    /\ blocks = <<>>
    /\ spans = <<>>
    /\ ret = Nothing
    /\ calls = 0
    /\ inst = 1
    /\ firsts = <<>>
    /\ results = <<>>
    /\ disk = {}

\* A further RtfdGunsForHands(data) over the same bytes.
Construct ==
    /\ pc = "idle"
    /\ inst < MaxInstances
    /\ inst' = inst + 1
    /\ data' = Constructed(data).data
    /\ offset' = Constructed(data).offset
    /\ length' = Constructed(data).length
    /\ calls' = 0
    /\ ret' = Nothing
    /\ blocks' = <<>>
    /\ spans' = <<>>
    /\ UNCHANGED <<pc, firsts, results, disk>>

\* A call of skip_rtfd_magic() from outside.
SkipRtfdMagic ==
    /\ pc = "idle"
    /\ calls < MaxCalls
    /\ calls' = calls + 1
    /\ offset' = skip_rtfd_magic
    /\ ret' = Nothing
    /\ UNCHANGED <<data, length, pc, blocks, spans, inst, firsts, results, disk>>

\* The return of parse_all_file_blocks with the list blks, as the n-th call
\* made on the instance.
Return(blks, n) ==
    /\ pc' = "idle"
    /\ ret' = Returned("list", blks, None, 0, 0, 0)
    /\ firsts' = IF n = 1 THEN Append(firsts, blks) ELSE firsts

\* parse_all_file_blocks() up to the while loop.
ParseAllEnter ==
    /\ pc = "idle"
    /\ calls < MaxCalls
    /\ calls' = calls + 1
    /\ blocks' = <<>>
    /\ spans' = <<>>
    /\ IF no_magic
       THEN /\ Return(<<>>, calls + 1)
            /\ offset' = offset
       ELSE /\ offset' = skip_rtfd_magic
            /\ pc' = "scan"
            /\ UNCHANGED <<ret, firsts>>
    /\ UNCHANGED <<data, length, inst, results, disk>>

\* One pass of the while loop, and the return after a break.
ParseAllLoop ==
    /\ pc = "scan"
    /\ LET it == loop_iteration(offset, blocks) IN
       /\ blocks' = it.blocks
       /\ offset' = it.offset
       /\ IF it.brk
          THEN /\ Return(it.blocks, calls)
               /\ spans' = spans
          ELSE /\ spans' = Append(spans, <<it.pos, it.offset>>)
               /\ UNCHANGED <<pc, ret, firsts>>
    /\ UNCHANGED <<data, length, calls, inst, results, disk>>

\* The start offsets callers pass to parse_file_block: every marker and the
\* ends of the buffer.
StartOffsets ==
    LET at(p) == /\ p >= 0
                 /\ p + Len(COMBINED_MARKER) <= length
                 /\ data[p + 1] = COMBINED_MARKER[1]
                 /\ Slice(data, p, p + Len(COMBINED_MARKER)) = COMBINED_MARKER
    IN  {0, length} \cup {q \in 0..length : at(q)}

\* A call of parse_file_block(start_offset) from outside.
CallParseFileBlock(start_offset) ==
    /\ pc = "idle"
    /\ calls < MaxCalls
    /\ calls' = calls + 1
    /\ LET r == parse_file_block(start_offset) IN
       ret' = Returned("block", <<>>, r.block, r.off, start_offset, r.read_end)
    /\ UNCHANGED <<data, length, offset, pc, blocks, spans, inst, firsts, results, disk>>

\* cli.main: it builds one instance from the bytes of the input file, calls
\* parse_all_file_blocks() once, loops over the returned blocks and ends.
CliMain ==
    /\ pc = "idle"
    /\ inst = 1
    /\ calls = 1
    /\ ret.kind = "list"
    /\ pc' = "exit"
    /\ results' = [i \in 1..Len(ret.list) |-> info(ret.list[i], i)]
    /\ disk' = written(disk, ret.list)
    /\ UNCHANGED <<data, length, offset, blocks, spans, ret, calls, inst, firsts>>

Next ==
    \/ Construct
    \/ SkipRtfdMagic
    \/ ParseAllEnter
    \/ ParseAllLoop
    \/ \E s \in StartOffsets : CallParseFileBlock(s)
    \/ CliMain

Spec == Init /\ [][Next]_vars

-----------------------------------------------------------------------------
(* Properties.                                                             *)

MarkerAt(q) ==
    /\ q >= 0
    /\ q + Len(COMBINED_MARKER) <= length
    /\ Slice(data, q, q + Len(COMBINED_MARKER)) = COMBINED_MARKER

\* The little-endian 16-bit value at 0-based index i of data (the two high
\* bytes of every length that fits a buffer of the model are zero).
Field(i) == data[i + 1] + 256 * data[i + 2]

\* 0-based index of the length field of the block whose marker is at start.
LengthFieldAt(start) == start + Len(COMBINED_MARKER) + 21 + 4

\* The block b decoded at start carries exactly the String body found at its
\* length field.
BodyAt(b, start) ==
    LET f == LengthFieldAt(start) IN
    IF SubSeq(data, f + 1, f + 4) = SENTINEL
    THEN LET T == Field(f + 4)
             P == Field(f + 8)
         IN  /\ b.file_len = T
             /\ b.pad_len = P
             /\ f + 12 + P + T <= length
             /\ b.file_data = SubSeq(data, f + 12 + P + 1, f + 12 + P + T)
             /\ Len(b.file_data) = b.file_len
    ELSE LET L == Field(f) IN
         /\ b.file_len = L
         /\ b.pad_len = 0
         /\ f + 4 + L <= length
         /\ b.file_data = SubSeq(data, f + 4 + 1, f + 4 + L)
         /\ Len(b.file_data) = b.file_len

\* C1: every block parse_file_block returns, called directly or from the loop
\* of parse_all_file_blocks, has as file_data exactly the String body at its
\* length field: after the sentinel 0x80000000 the fields T and P, P skipped
\* bytes and then T bytes (file_len = T, pad_len = P); otherwise the L bytes
\* after the field (pad_len = 0); and len(file_data) = file_len.
C1_FileDataIsStringBody ==
    /\ (ret.kind = "block" /\ ret.block # None) => BodyAt(ret.block[1], ret.arg)
    /\ \A i \in DOMAIN spans : BodyAt(blocks[i], spans[i][1])

\* C1 witness: a direct call returned a sentinel-encoded block with padding
\* and a body of another length.
C1_Witness ==
    /\ ret.kind = "block"
    /\ ret.block # None
    /\ ret.block[1].pad_len > 0
    /\ ret.block[1].file_len > 0
    /\ ret.block[1].file_len # ret.block[1].pad_len

\* Whether the scan of the last parse_all_file_blocks call, whose list ret
\* holds, stopped at a marker whose block did not decode.
StoppedOnFailure ==
    /\ pc = "idle"
    /\ ret.kind = "list"
    /\ ~no_magic
    /\ Find(data, COMBINED_MARKER, offset) # -1

\* C2 as claimed: when a found block fails to decode, the caller receives no
\* list holding the blocks decoded before the failure.
C2_AllOrNothing == StoppedOnFailure => ret.list = <<>>

\* C2 as amended: when a found block fails to decode, the scan stops and the
\* caller receives exactly the blocks decoded before the failure, in order.
C2_PartialOnFailure ==
    StoppedOnFailure =>
        /\ Len(ret.list) = Len(spans)
        /\ \A i \in DOMAIN spans :
              /\ parse_file_block(spans[i][1]).block # None
              /\ ret.list[i] = parse_file_block(spans[i][1]).block[1]
        /\ parse_file_block(Find(data, COMBINED_MARKER, offset)).block = None

\* C2 witness: a scan that stopped on a failing block returned a non-empty list.
C2_Witness == StoppedOnFailure /\ ret.list # <<>>

\* What the two repeated names of a block ending its file body at o6 declare,
\* and where the block then ends.
NameEnd(o6) == o6 + 8 + Field(o6 + 4) + 8 + Field(o6 + 8 + Field(o6 + 4) + 4)

\* 0-based index just past the file body of the block b decoded at start.
BodyEnd(b, start) ==
    LET f == LengthFieldAt(start) IN
    f + (IF SubSeq(data, f + 1, f + 4) = SENTINEL THEN 12 ELSE 4) + b.pad_len + b.file_len

\* C3: parse_file_block never asks for an index outside the buffer; a block it
\* returns lies wholly inside the buffer, with file_data of file_len bytes and
\* both names decoded from all the bytes they declare; and on the same buffer
\* cut anywhere before the end of that block it reports a failure.
C3_TruncationFails ==
    ret.kind = "block" =>
        /\ ret.arg <= ret.read_end
        /\ ret.read_end <= length
        /\ ret.block # None =>
              LET b == ret.block[1]
                  o6 == BodyEnd(b, ret.arg)
                  n1 == Field(o6 + 4)
                  n2 == Field(o6 + 8 + n1 + 4)
              IN  /\ Len(b.file_data) = b.file_len
                  /\ ret.off = NameEnd(o6)
                  /\ ret.off <= length
                  /\ b.repeated_name = Utf8Decode(SubSeq(data, o6 + 9, o6 + 8 + n1))
                  /\ b.repeated_utf8 =
                        Utf8Decode(SubSeq(data, o6 + 8 + n1 + 9, o6 + 8 + n1 + 8 + n2))
                  /\ \A k \in ret.arg..(ret.off - 1) :
                        LET cut == ParseFileBlock(SubSeq(data, 1, k), k, ret.arg) IN
                        cut.block = None /\ cut.read_end <= k

\* C3 witness: the buffer is Whole cut short after the record-type marker of
\* its block, and the call on that block failed.
C3_Witness ==
    /\ ret.kind = "block"
    /\ ret.block = None
    /\ ret.arg = Len(RTFD)
    /\ length > LengthFieldAt(ret.arg)
    /\ length < Len(Whole)
    /\ data = SubSeq(Whole, 1, length)

\* The state right after the first call on an instance entered the loop.
Entered == calls = 1 /\ pc = "scan" /\ spans = <<>>

\* C4 as claimed: a decode starts only past a valid 12-byte header (the magic
\* "rtfd", reserved = 0, root type = 3), with the offset advanced by exactly 12.
C4_HeaderValidated ==
    Entered => (StartsWith(data, RTFD \o LE32(0) \o LE32(3)) /\ offset = 12)

\* C4 as amended: a buffer that begins with "rtfd" is accepted whatever
\* follows and the offset advances by exactly 4; on a new instance a buffer
\* that does not is answered with the empty list, the offset left at 0.
C4_MagicOnly ==
    /\ Entered => (StartsWith(data, RTFD) /\ offset = 4)
    /\ (calls = 1 /\ ret.kind = "list" /\ ~StartsWith(data, RTFD)) =>
          (ret.list = <<>> /\ offset = 0 /\ spans = <<>>)
    /\ (calls = 1 /\ ret.kind = "list" /\ StartsWith(data, RTFD)) => offset >= 4

\* C4 witness: a buffer with the magic but a non-zero reserved field entered
\* the loop.
C4_Witness == Entered /\ StartsWith(data, RTFD \o LE32(1) \o LE32(3)) /\ offset = 4

\* C5: the lists that new instances built from the same bytes return from
\* parse_all_file_blocks, each as its first call, are identical.
C5_Deterministic == \A i \in DOMAIN firsts : \A j \in DOMAIN firsts : firsts[i] = firsts[j]

\* C5 witness: two instances each returned a list of two or more blocks.
C5_Witness == Len(firsts) >= 2 /\ Len(firsts[1]) >= 2 /\ Len(firsts[2]) >= 2

\* C6 as claimed: the resolved name is repeated_utf8 if non-empty, else
\* repeated_name if non-empty, else the empty text.
C6_NameOrEmpty ==
    pc = "exit" =>
        \A i \in DOMAIN results :
            results[i].filename =
                IF ret.list[i].repeated_utf8 # <<>> THEN ret.list[i].repeated_utf8
                ELSE ret.list[i].repeated_name

\* C6 as amended: the resolved name is repeated_utf8 if non-empty, else
\* repeated_name if non-empty, else "file_<i>.bin" with i the 1-based
\* position of the block; it is never empty.
C6_NameOrFallback ==
    pc = "exit" =>
        /\ Len(results) = Len(ret.list)
        /\ \A i \in DOMAIN results :
              LET b == ret.list[i]
                  n == results[i].filename
              IN  /\ n # <<>>
                  /\ b.repeated_utf8 # <<>> => n = b.repeated_utf8
                  /\ (b.repeated_utf8 = <<>> /\ b.repeated_name # <<>>) => n = b.repeated_name
                  /\ (b.repeated_utf8 = <<>> /\ b.repeated_name = <<>>) =>
                        n = <<102, 105, 108, 101, 95>> \o Digits(i) \o <<46, 98, 105, 110>>

\* C6 witness: the tool named a second block whose two names are both empty,
\* after a first block with a name.
C6_Witness ==
    /\ pc = "exit"
    /\ Len(results) >= 2
    /\ ret.list[1].repeated_name # <<>>
    /\ ret.list[2].repeated_utf8 = <<>>
    /\ ret.list[2].repeated_name = <<>>

\* C7: a call of parse_file_block(start_offset) returns (block, new_offset)
\* or, on every failure, (None, start_offset), and leaves offset, data and
\* length of the instance as they were.
C7_Frame ==
    [][(pc = "idle" /\ pc' = "idle" /\ ret'.kind = "block") =>
          /\ offset' = offset
          /\ data' = data
          /\ length' = length
          /\ ret'.block = None => ret'.off = ret'.arg
          /\ ret'.block # None => ret'.off > ret'.arg]_vars

\* C7 witness: on an instance whose offset has moved, a call failed inside one
\* of the repeated names.
C7_Witness ==
    /\ ret.kind = "block"
    /\ ret.block = None
    /\ offset > 0
    /\ ret.read_end >= LengthFieldAt(ret.arg) + 4 + 1 + 4

C9_OffsetAdvances ==
    [][(pc = "scan" /\ pc' = "scan") =>
          /\ Find(data, COMBINED_MARKER, offset) >= offset
          /\ offset' > Find(data, COMBINED_MARKER, offset)
          /\ offset' > offset
          /\ offset' <= length
          /\ Len(blocks') = Len(blocks) + 1
          /\ Len(blocks') <= length]_vars

\* C9 witness: the loop has made two passes and is still running.
C9_Witness == pc = "scan" /\ Len(blocks) >= 2

\* C10 as claimed: on one instance the offset never decreases and stays
\* within 0..length.
C10_OffsetInRange ==
    [][inst' = inst => (offset' >= offset /\ 0 <= offset' /\ offset' <= length')]_vars

====
